---- MODULE Spec2Model ----
(***************************************************************************)
(* Cover-art operations of MIM (media info manager): the CLI script        *)
(* src/main.py and the GUI src/mim.py.  Strings are sequences of           *)
(* one-character strings, so that formatting, splitting, lower-casing and  *)
(* substring tests are computed as Python computes them.  The tag store    *)
(* (mutagen) and the file system are the environment: a file's tag state   *)
(* is a record, the output directory is a set of [path, data] files, and   *)
(* an I/O failure is a nondeterministic input of every step.               *)
(***************************************************************************)
EXTENDS Naturals, Sequences, FiniteSets, TLC

VARIABLES variant, store, out, selection, image, op, idx, results, console,
          pc, runs, outcomes, before, lastRep, listed

vars == <<variant, store, out, selection, image, op, idx, results, console,
          pc, runs, outcomes, before, lastRep, listed>>

\* number of batch runs (button presses in mim.py, launches of main.py)
MaxRuns == 2

-----------------------------------------------------------------------------
(* Python string primitives used by the source *)

Range(s) == {s[i] : i \in DOMAIN s}

\* str.rfind(c) + 1: the last position of character c, 0 when absent
RFind(s, c) ==
  LET hits == {i \in DOMAIN s : s[i] = c}
  IN IF hits = {} THEN 0 ELSE CHOOSE i \in hits : \A j \in hits : j <= i

\* `sub in s`
Contains(s, sub) ==
  \E i \in 0..Len(s) : i + Len(sub) <= Len(s) /\ SubSeq(s, i + 1, i + Len(sub)) = sub

\* s.endswith(suffix) for one str
EndsWithStr(s, suffix) ==
  Len(suffix) <= Len(s) /\ SubSeq(s, Len(s) - Len(suffix) + 1, Len(s)) = suffix

UpperAlpha == <<"A","B","C","D","E","F","G","H","I","J","K","L","M","N","O","P","Q","R","S","T","U","V","W","X","Y","Z">>
LowerAlpha == <<"a","b","c","d","e","f","g","h","i","j","k","l","m","n","o","p","q","r","s","t","u","v","w","x","y","z">>

LowerChar(c) ==
  IF c \in Range(UpperAlpha)
  THEN LowerAlpha[CHOOSE i \in DOMAIN UpperAlpha : UpperAlpha[i] = c]
  ELSE c

\* a lower() that is left out
lower_left_out(s) == s

\* str.lower()
lower(s) == [i \in DOMAIN s |-> LowerChar(s[i])]

\* str.replace(c, '') for a one-character c
RECURSIVE RemoveChar(_, _)
RemoveChar(s, c) ==
  IF s = <<>> THEN <<>>
  ELSE (IF Head(s) = c THEN <<>> ELSE <<Head(s)>>) \o RemoveChar(Tail(s), c)

\* str.split(): the maximal runs of non-blank characters
RECURSIVE SplitBlank(_, _)
SplitBlank(s, word) ==
  IF s = <<>> THEN (IF word = <<>> THEN <<>> ELSE <<word>>)
  ELSE IF Head(s) = " "
       THEN (IF word = <<>> THEN <<>> ELSE <<word>>) \o SplitBlank(Tail(s), <<>>)
       ELSE SplitBlank(Tail(s), Append(word, Head(s)))

\* s, the [1:] left out
DropNone(s) == s

\* s[1:]
DropFirst(s) == IF s = <<>> THEN <<>> ELSE Tail(s)

\* s.split('/')[0]
SplitFirst(s, c) ==
  LET hits == {i \in DOMAIN s : s[i] = c}
  IN IF hits = {} THEN s
     ELSE SubSeq(s, 1, (CHOOSE i \in hits : \A j \in hits : i <= j) - 1)

\* s.split('/')[-1]
SplitLast(s, c) == SubSeq(s, RFind(s, c) + 1, Len(s))

\* os.path.basename (posixpath)
basename(p) == SubSeq(p, RFind(p, "/") + 1, Len(p))

\* os.path.splitext (genericpath._splitext): <<root, ext>>; the last dot splits
\* only when a character other than a dot stands between the last slash and it
splitext(p) ==
  LET sepIndex == RFind(p, "/")
      dotIndex == RFind(p, ".")
  IN IF dotIndex > sepIndex
        /\ \E k \in (sepIndex + 1)..(dotIndex - 1) : p[k] # "."
     THEN <<SubSeq(p, 1, dotIndex - 1), SubSeq(p, dotIndex, Len(p))>>
     ELSE <<p, <<>>>>

\* os.path.join(a, b) (posixpath)
join(a, b) ==
  IF b # <<>> /\ Head(b) = "/" THEN b
  ELSE IF a = <<>> \/ a[Len(a)] = "/" THEN a \o b
  ELSE a \o <<"/">> \o b

-----------------------------------------------------------------------------
(* Module constants *)

COVER_ART_DIR == <<"c","o","v","e","r","_","a","r","t">>
AUDIO_FILE_PATTERN == <<"*",".","m","p","3"," ","*",".","f","l","a","c"," ","*",".","o","g","g"," ","*",".","m","4","a"," ","*",".","m","p","4"," ","*",".","w","a","v">>

\* mim.py: tuple(AUDIO_FILE_PATTERN.replace('*', '').split())
AUDIO_EXTENSIONS == [kind |-> "tuple", items |-> SplitBlank(RemoveChar(AUDIO_FILE_PATTERN, "*"), <<>>)]

\* main.py: set(AUDIO_FILE_PATTERN.replace('*', '').split())
AUDIO_EXTENTIONS == [kind |-> "set", items |-> SplitBlank(RemoveChar(AUDIO_FILE_PATTERN, "*"), <<>>)]

\* str.endswith(arg): a tuple of str is accepted, any other container raises
\* TypeError ("endswith first arg must be str or a tuple of str, not set")
endswith(s, arg) ==
  IF arg.kind = "tuple"
  THEN [raised |-> FALSE, value |-> \E i \in DOMAIN arg.items : EndsWithStr(s, arg.items[i])]
  ELSE [raised |-> TRUE, value |-> FALSE]

-----------------------------------------------------------------------------
(* The environment: audio files, the tag store, images, the output directory *)

\* An audio file as the tag library sees it.  fmt: "mp3" (ID3 tags, which have
\* getall/delall), "flac" (tags without getall/delall) or "junk" (no known
\* format).  hasTags: a tag container exists.  other: it holds a frame that is
\* not a picture.  pics: its APIC frames, in order.
Pic(mime, data) == [mime |-> mime, data |-> data]
AudioFile(fmt, hasTags, other, pics) ==
  [fmt |-> fmt, hasTags |-> hasTags, other |-> other, pics |-> pics]

JPEG(data) == Pic(<<"i","m","a","g","e","/","j","p","e","g">>, data)
PNG(data) == Pic(<<"i","m","a","g","e","/","p","n","g">>, data)

NoTagsMp3 == AudioFile("mp3", FALSE, FALSE, <<>>)
TextOnlyMp3 == AudioFile("mp3", TRUE, TRUE, <<>>)
OnePicMp3 == AudioFile("mp3", TRUE, TRUE, <<JPEG("bytesA")>>)
PicOnlyMp3 == AudioFile("mp3", TRUE, FALSE, <<JPEG("bytesB")>>)
TwoPicMp3 == AudioFile("mp3", TRUE, TRUE, <<JPEG("bytesB"), PNG("bytesC")>>)
FlacFile == AudioFile("flac", TRUE, TRUE, <<>>)
JunkFile == AudioFile("junk", FALSE, FALSE, <<>>)

SongA == <<"/","a","/","s","o","n","g",".","m","p","3">>
SongB == <<"/","b","/","s","o","n","g",".","m","p","3">>
CopyNamed == <<"/","b","/","[","C","O","P","Y","]",".","M","P","3">>
OtherC == <<"/","c","/","x",".","f","l","a","c">>

\* the disks the program is started on
Stores ==
  { (SongA :> OnePicMp3) @@ (SongB :> TwoPicMp3),
    (SongA :> NoTagsMp3) @@ (SongB :> PicOnlyMp3),
    (SongA :> TextOnlyMp3) @@ (OtherC :> FlacFile),
    (CopyNamed :> TextOnlyMp3) @@ (OtherC :> JunkFile),
    (CopyNamed :> OnePicMp3) }

\* the replacement images on disk: path -> bytes
Images == (<<"/","i","/","c",".","P","N","G">> :> "bytesP") @@ (<<"/","i","/","n",".","j","p","g">> :> "bytesQ")

\* entries every directory holds besides its audio files
ExtraEntries == {<<"n","o","t","e","s",".","t","x","t">>, <<"s","u","b">>}
Dirs == {<<"/","a">>, <<"/","b">>, <<"/","e">>}

dirname(p) == SubSeq(p, 1, RFind(p, "/") - 1)

\* os.listdir(d), as a set: the names of the files of the disk lying directly
\* in d, plus the extra entries; the directory /e is empty
listdir(st, d) ==
  IF d = <<"/","e">> THEN {}
  ELSE {basename(p) : p \in {q \in DOMAIN st : dirname(q) = d}} \cup ExtraEntries

\* all orders in which os.listdir may return a set of names
RECURSIVE Orders(_)
Orders(S) ==
  IF S = {} THEN {<<>>}
  ELSE UNION {{<<x>> \o rest : rest \in Orders(S \ {x})} : x \in S}

\* open(path, 'wb') and write(data): the file is created or overwritten
WriteFile(o, path, data) ==
  {f \in o : f.path # path} \cup {[path |-> path, data |-> data]}

\* str(OSError)
OSErrorText(path) == <<"[","E","r","r","n","o"," ","1","3","]"," ","P","e","r","m","i","s","s","i","o","n"," ","d","e","n","i","e","d",":"," ","'">> \o path \o <<"'">>
HeaderNotFoundText == <<"c","a","n","'","t"," ","s","y","n","c"," ","t","o"," ","M","P","E","G"," ","f","r","a","m","e">>

\* mutagen.File(path): raises when the file cannot be read, None (here: a
\* junk file) when no format matches
MutagenFile(st, path, failed) ==
  IF failed \/ path \notin DOMAIN st
  THEN [raised |-> TRUE, file |-> JunkFile, error |-> OSErrorText(path)]
  ELSE [raised |-> FALSE, file |-> st[path], error |-> <<>>]

\* `not audio_file or not audio_file.tags`: None, no tag container, or a tag
\* container without any frame (FileType and ID3 are empty mappings then)
NoTags(audio_file) ==
  \/ audio_file.fmt = "junk"
  \/ ~audio_file.hasTags
  \/ (~audio_file.other /\ audio_file.pics = <<>>)

\* hasattr(audio_file.tags, 'getall') / hasattr(audio_file.tags, 'delall')
HasFrameApi(audio_file) == audio_file.fmt = "mp3"

\* a delall that removes the first picture frame only
delall_first(audio_file) ==
  [audio_file EXCEPT !.pics = IF @ = <<>> THEN <<>> ELSE Tail(@)]

\* tags.delall('APIC')
delall(audio_file) == [audio_file EXCEPT !.pics = <<>>]

\* the failures a step may meet: the tag library failing to open the audio
\* file ("open"; "reopen" in the Delete half of Extract), to save it ("save"),
\* the output file not being writable ("write"), the image not readable
Fails(operation) ==
  CASE operation = "COPY" -> {"none", "open", "write"}
    [] operation = "DELETE" -> {"none", "reopen", "save"}
    [] operation = "EXTRACT" -> {"none", "open", "write", "reopen", "save"}
    [] operation = "REPLACE" -> {"none", "image", "open", "save"}

\* what an operation gives back: the disk, the output directory, the returned
\* value, the printed lines, and which of Copy, Delete, Replace ran and how
\* ("none": not invoked; "ok", "skip", "error")
Outcome(st, o, ret, lines, c, d, r) ==
  [store |-> st, out |-> o, ret |-> ret, lines |-> lines, copy |-> c, del |-> d, rep |-> r,
   raised |-> FALSE]

\* an exception that leaves the operation: nothing returned, nothing printed
Raises(st, o, c, d, r) ==
  [store |-> st, out |-> o, ret |-> "None", lines |-> <<>>, copy |-> c, del |-> d, rep |-> r,
   raised |-> TRUE]

-----------------------------------------------------------------------------
(* src/mim.py: every operation returns its result string *)

\* a Copy that removes the frame it has copied and saves the audio file
mim_copy_cover_art_moving(fs, file_path, fail) ==
  LET opened == MutagenFile(fs.store, file_path, fail = "open")
      audio_file == opened.file
      error(error_info) ==
        Outcome(fs.store, fs.out,
                <<"[","E","R","R","O","R","]"," ","F","a","i","l","e","d"," ","o","n"," ","\"">> \o file_path \o <<"\"",":"," ">> \o error_info,
                <<>>, "error", "none", "none")
  IN IF opened.raised THEN error(opened.error)
     ELSE IF NoTags(audio_file)
     THEN Outcome(fs.store, fs.out, <<"[","S","K","I","P","]"," ","N","o"," ","t","a","g","s"," ","i","n"," ","\"">> \o file_path \o <<"\"">>,
                  <<>>, "skip", "none", "none")
     ELSE LET apic_frames == IF HasFrameApi(audio_file) THEN audio_file.pics ELSE <<>>
          IN IF apic_frames = <<>>
             THEN Outcome(fs.store, fs.out,
                          <<"[","S","K","I","P","]"," ","N","o"," ","c","o","v","e","r"," ","a","r","t"," ","i","n"," ","\"">> \o file_path \o <<"\"">>,
                          <<>>, "skip", "none", "none")
             ELSE LET cover_frame == apic_frames[1]
                      image_extension == SplitLast(cover_frame.mime, "/")
                      file_basename == splitext(basename(file_path))[1]
                      output_path ==
                        join(COVER_ART_DIR, file_basename \o <<".">> \o image_extension)
                  IN IF fail = "write" THEN error(OSErrorText(output_path))
                     ELSE Outcome([fs.store EXCEPT ![file_path].pics = Tail(@)],
                                  WriteFile(fs.out, output_path, cover_frame.data),
                                  <<"[","C","O","P","Y","]"," ","C","o","v","e","r"," ","a","r","t"," ","s","a","v","e","d"," ","t","o"," ","\"">> \o output_path \o <<"\"">>,
                                  <<>>, "ok", "none", "none")

mim_copy_cover_art(fs, file_path, fail) ==
  LET opened == MutagenFile(fs.store, file_path, fail = "open")
      audio_file == opened.file
      error(error_info) ==
        Outcome(fs.store, fs.out,
                <<"[","E","R","R","O","R","]"," ","F","a","i","l","e","d"," ","o","n"," ","\"">> \o file_path \o <<"\"",":"," ">> \o error_info,
                <<>>, "error", "none", "none")
  IN IF opened.raised THEN error(opened.error)
     ELSE IF NoTags(audio_file)
     THEN Outcome(fs.store, fs.out, <<"[","S","K","I","P","]"," ","N","o"," ","t","a","g","s"," ","i","n"," ","\"">> \o file_path \o <<"\"">>,
                  <<>>, "skip", "none", "none")
     ELSE LET apic_frames == IF HasFrameApi(audio_file) THEN audio_file.pics ELSE <<>>
          IN IF apic_frames = <<>>
             THEN Outcome(fs.store, fs.out,
                          <<"[","S","K","I","P","]"," ","N","o"," ","c","o","v","e","r"," ","a","r","t"," ","i","n"," ","\"">> \o file_path \o <<"\"">>,
                          <<>>, "skip", "none", "none")
             ELSE LET cover_frame == apic_frames[1]
                      image_extension == SplitLast(cover_frame.mime, "/")
                      file_basename == splitext(basename(file_path))[1]
                      output_path ==
                        join(COVER_ART_DIR, file_basename \o <<".">> \o image_extension)
                  IN IF fail = "write" THEN error(OSErrorText(output_path))
                     ELSE Outcome(fs.store,
                                  WriteFile(fs.out, output_path, cover_frame.data),
                                  <<"[","C","O","P","Y","]"," ","C","o","v","e","r"," ","a","r","t"," ","s","a","v","e","d"," ","t","o"," ","\"">> \o output_path \o <<"\"">>,
                                  <<>>, "ok", "none", "none")

\* a Delete whose try has no except: a failure of the tag store leaves it
mim_delete_cover_art_uncaught(fs, file_path, fail) ==
  LET opened == MutagenFile(fs.store, file_path, fail = "reopen")
      audio_file == opened.file
  IN IF opened.raised THEN Raises(fs.store, fs.out, "none", "error", "none")
     ELSE IF NoTags(audio_file)
     THEN Outcome(fs.store, fs.out,
                  <<"[","S","K","I","P","]"," ","N","o"," ","t","a","g","s"," ","t","o"," ","r","e","m","o","v","e"," ","f","r","o","m"," ","\"">> \o file_path \o <<"\"">>,
                  <<>>, "none", "skip", "none")
     ELSE IF HasFrameApi(audio_file)
     THEN IF fail = "save" THEN Raises(fs.store, fs.out, "none", "error", "none")
          ELSE Outcome([fs.store EXCEPT ![file_path] = delall(audio_file)], fs.out,
                       <<"[","D","E","L","E","T","E","]"," ","C","o","v","e","r"," ","a","r","t"," ","r","e","m","o","v","e","d"," ","f","r","o","m"," ","\"">> \o file_path \o <<"\"">>,
                       <<>>, "none", "ok", "none")
     ELSE Outcome(fs.store, fs.out,
                  <<"[","S","K","I","P","]"," ","T","a","g"," ","f","o","r","m","a","t"," ","d","o","e","s"," ","n","o","t"," ","s","u","p","p","o","r","t"," ","c","o","v","e","r"," ","d","e","l","e","t","i","o","n",":"," ","\"">>
                    \o file_path \o <<"\"">>,
                  <<>>, "none", "skip", "none")

mim_delete_cover_art(fs, file_path, fail) ==
  LET opened == MutagenFile(fs.store, file_path, fail = "reopen")
      audio_file == opened.file
      error(error_info) ==
        Outcome(fs.store, fs.out,
                <<"[","E","R","R","O","R","]"," ","C","o","u","l","d"," ","n","o","t"," ","d","e","l","e","t","e"," ","c","o","v","e","r"," ","a","r","t"," ","f","r","o","m"," ","\"">> \o file_path \o <<"\"",":"," ">>
                  \o error_info,
                <<>>, "none", "error", "none")
  IN IF opened.raised THEN error(opened.error)
     ELSE IF NoTags(audio_file)
     THEN Outcome(fs.store, fs.out,
                  <<"[","S","K","I","P","]"," ","N","o"," ","t","a","g","s"," ","t","o"," ","r","e","m","o","v","e"," ","f","r","o","m"," ","\"">> \o file_path \o <<"\"">>,
                  <<>>, "none", "skip", "none")
     ELSE IF HasFrameApi(audio_file)
     THEN IF fail = "save" THEN error(OSErrorText(file_path))
          ELSE Outcome([fs.store EXCEPT ![file_path] = delall(audio_file)], fs.out,
                       <<"[","D","E","L","E","T","E","]"," ","C","o","v","e","r"," ","a","r","t"," ","r","e","m","o","v","e","d"," ","f","r","o","m"," ","\"">> \o file_path \o <<"\"">>,
                       <<>>, "none", "ok", "none")
     ELSE Outcome(fs.store, fs.out,
                  <<"[","S","K","I","P","]"," ","T","a","g"," ","f","o","r","m","a","t"," ","d","o","e","s"," ","n","o","t"," ","s","u","p","p","o","r","t"," ","c","o","v","e","r"," ","d","e","l","e","t","i","o","n",":"," ","\"">>
                    \o file_path \o <<"\"">>,
                  <<>>, "none", "skip", "none")

mim_extract_cover_art(fs, file_path, fail) ==
  LET copy_result == mim_copy_cover_art(fs, file_path, fail)
  IN IF copy_result.raised THEN copy_result
     ELSE IF Contains(copy_result.ret, <<"[","C","O","P","Y","]">>)
     THEN LET delete_result ==
                mim_delete_cover_art([store |-> copy_result.store, out |-> copy_result.out],
                                     file_path, fail)
          IN IF delete_result.raised
             THEN Raises(delete_result.store, delete_result.out,
                         copy_result.copy, delete_result.del, "none")
             ELSE Outcome(delete_result.store, delete_result.out,
                          copy_result.ret \o <<"\n">> \o delete_result.ret,
                          <<>>, copy_result.copy, delete_result.del, "none")
     ELSE copy_result

\* MP3(file_path, ID3=ID3): raises unless the file is an MPEG audio file
MP3(st, path, failed) ==
  IF failed \/ path \notin DOMAIN st
  THEN [raised |-> TRUE, file |-> JunkFile, error |-> OSErrorText(path)]
  ELSE IF st[path].fmt # "mp3"
  THEN [raised |-> TRUE, file |-> JunkFile, error |-> HeaderNotFoundText]
  ELSE [raised |-> FALSE, file |-> st[path], error |-> <<>>]

\* open(image_path, 'rb').read()
ReadImage(image_path, failed) ==
  IF failed \/ image_path \notin DOMAIN Images
  THEN [raised |-> TRUE, data |-> "", error |-> OSErrorText(image_path)]
  ELSE [raised |-> FALSE, data |-> Images[image_path], error |-> <<>>]

\* the new frame added without the delall before it
ReplaceFrames_keep(audio_file, mime_type, image_data) ==
  [audio_file EXCEPT !.hasTags = TRUE, !.pics = Append(@, Pic(mime_type, image_data))]

\* tags.delall('APIC'); tags.add(APIC(mime=mime_type, data=image_data)) on the
\* tags of audio_file, created by add_tags() when there were none
ReplaceFrames(audio_file, mime_type, image_data) ==
  [audio_file EXCEPT !.hasTags = TRUE, !.pics = <<Pic(mime_type, image_data)>>]

mim_replace_cover_art(fs, file_path, image_path, fail) ==
  LET read == ReadImage(image_path, fail = "image")
      image_data == read.data
      image_extension == lower(DropFirst(splitext(image_path)[2]))
      mime_type == <<"i","m","a","g","e","/">> \o image_extension
      opened == MP3(fs.store, file_path, fail = "open")
      audio_file == opened.file
      error(error_info) ==
        Outcome(fs.store, fs.out,
                <<"[","E","R","R","O","R","]"," ","F","a","i","l","e","d"," ","o","n"," ","\"">> \o file_path \o <<"\"",":"," ">> \o error_info,
                <<>>, "none", "none", "error")
  IN IF read.raised THEN error(read.error)
     ELSE IF opened.raised THEN error(opened.error)
     ELSE IF fail = "save" THEN error(OSErrorText(file_path))
     ELSE Outcome([fs.store EXCEPT
                     ![file_path] = ReplaceFrames(audio_file, mime_type, image_data)],
                  fs.out,
                  <<"[","R","E","P","L","A","C","E","]"," ","C","o","v","e","r"," ","a","r","t"," ","r","e","p","l","a","c","e","d"," ","i","n"," ","\"">> \o file_path \o <<"\"">>,
                  <<>>, "none", "none", "ok")

\* [os.path.join(directory_path, entry) for entry in listing
\*    if entry.lower().endswith(extensions)]
RECURSIVE AudioFilesIn(_, _, _)
AudioFilesIn(directory_path, listing, extensions) ==
  IF listing = <<>> THEN [raised |-> FALSE, value |-> <<>>]
  ELSE LET entry == Head(listing)
           test == endswith(lower(entry), extensions)
           rest == AudioFilesIn(directory_path, Tail(listing), extensions)
       IN IF test.raised \/ rest.raised THEN [raised |-> TRUE, value |-> <<>>]
          ELSE [raised |-> FALSE,
                value |-> (IF test.value THEN <<join(directory_path, entry)>> ELSE <<>>)
                            \o rest.value]

mim_get_audio_files_from_directory(directory_path, listing) ==
  AudioFilesIn(directory_path, listing, AUDIO_EXTENSIONS)

-----------------------------------------------------------------------------
(* src/main.py: every operation prints its result; Copy returns a bool *)

main_copy_cover_art(fs, file_path, silent, fail) ==
  LET opened == MutagenFile(fs.store, file_path, fail = "open")
      audio_file == opened.file
      said(line) == IF silent THEN <<>> ELSE <<line>>
      error(error_info) ==
        Outcome(fs.store, fs.out, FALSE,
                <<<<"[","E","R","R","O","R","]"," ","F","a","i","l","e","d"," ","o","n"," ","\"">> \o file_path \o <<"\"",":"," ">> \o error_info>>,
                "error", "none", "none")
  IN IF opened.raised THEN error(opened.error)
     ELSE IF NoTags(audio_file)
     THEN Outcome(fs.store, fs.out, FALSE,
                  said(<<"[","S","K","I","P","]"," ","N","o"," ","t","a","g","s"," ","i","n"," ","\"">> \o file_path \o <<"\"">>),
                  "skip", "none", "none")
     ELSE LET apic_frames == IF HasFrameApi(audio_file) THEN audio_file.pics ELSE <<>>
          IN IF apic_frames = <<>>
             THEN Outcome(fs.store, fs.out, FALSE,
                          said(<<"[","S","K","I","P","]"," ","N","o"," ","c","o","v","e","r"," ","a","r","t"," ","i","n"," ","\"">> \o file_path \o <<"\"">>),
                          "skip", "none", "none")
             ELSE LET cover_frame == apic_frames[1]
                      image_extension == SplitLast(cover_frame.mime, "/")
                      file_basename == splitext(basename(file_path))[1]
                      output_path ==
                        join(COVER_ART_DIR, file_basename \o <<".">> \o image_extension)
                  IN IF fail = "write" THEN error(OSErrorText(output_path))
                     ELSE Outcome(fs.store,
                                  WriteFile(fs.out, output_path, cover_frame.data), TRUE,
                                  said(<<"[","C","O","P","Y","]"," ","C","o","v","e","r"," ","a","r","t"," ","s","a","v","e","d"," ","t","o"," ","\"">> \o output_path \o <<"\"">>),
                                  "ok", "none", "none")

main_delete_cover_art(fs, file_path, fail) ==
  LET opened == MutagenFile(fs.store, file_path, fail = "reopen")
      audio_file == opened.file
      error(error_info) ==
        Outcome(fs.store, fs.out, "None",
                <<<<"[","E","R","R","O","R","]"," ","C","o","u","l","d"," ","n","o","t"," ","d","e","l","e","t","e"," ","c","o","v","e","r"," ","a","r","t"," ","f","r","o","m"," ","\"">> \o file_path \o <<"\"",":"," ">>
                    \o error_info>>,
                "none", "error", "none")
  IN IF opened.raised THEN error(opened.error)
     ELSE IF NoTags(audio_file)
     THEN Outcome(fs.store, fs.out, "None",
                  <<<<"[","S","K","I","P","]"," ","N","o"," ","t","a","g","s"," ","t","o"," ","r","e","m","o","v","e"," ","f","r","o","m"," ","\"">> \o file_path \o <<"\"">>>>,
                  "none", "skip", "none")
     ELSE IF HasFrameApi(audio_file)
     THEN IF fail = "save" THEN error(OSErrorText(file_path))
          ELSE Outcome([fs.store EXCEPT ![file_path] = delall(audio_file)], fs.out, "None",
                       <<<<"[","D","E","L","E","T","E","]"," ","C","o","v","e","r"," ","a","r","t"," ","r","e","m","o","v","e","d"," ","f","r","o","m"," ","\"">> \o file_path \o <<"\"">>>>,
                       "none", "ok", "none")
     ELSE Outcome(fs.store, fs.out, "None",
                  <<<<"[","S","K","I","P","]"," ","T","a","g"," ","f","o","r","m","a","t"," ","d","o","e","s"," ","n","o","t"," ","s","u","p","p","o","r","t"," ","c","o","v","e","r"," ","d","e","l","e","t","i","o","n",":"," ","\"">>
                      \o file_path \o <<"\"">>>>,
                  "none", "skip", "none")

main_extract_cover_art(fs, file_path, fail) ==
  LET copied == main_copy_cover_art(fs, file_path, TRUE, fail)
      was_copied == copied.ret
  IN IF copied.raised THEN copied
     ELSE IF ~was_copied
     THEN Outcome(copied.store, copied.out, "None",
                  copied.lines \o <<<<"[","S","K","I","P","]"," ","N","o"," ","c","o","v","e","r"," ","a","r","t"," ","i","n"," ","\"">> \o file_path \o <<"\"">>>>,
                  copied.copy, "none", "none")
     ELSE LET deleted ==
                main_delete_cover_art([store |-> copied.store, out |-> copied.out],
                                      file_path, fail)
          IN IF deleted.raised
             THEN Raises(deleted.store, deleted.out, copied.copy, deleted.del, "none")
             ELSE Outcome(deleted.store, deleted.out, "None",
                          copied.lines \o deleted.lines,
                          copied.copy, deleted.del, "none")

main_replace_cover_art(fs, file_path, image_path, fail) ==
  LET read == ReadImage(image_path, fail = "image")
      image_data == read.data
      image_extension == lower(DropFirst(splitext(image_path)[2]))
      mime_type == <<"i","m","a","g","e","/">> \o image_extension
      opened == MP3(fs.store, file_path, fail = "open")
      audio_file == opened.file
      error(error_info) ==
        Outcome(fs.store, fs.out, "None",
                <<<<"[","E","R","R","O","R","]"," ","F","a","i","l","e","d"," ","o","n"," ","\"">> \o file_path \o <<"\"",":"," ">> \o error_info>>,
                "none", "none", "error")
  IN IF read.raised THEN error(read.error)
     ELSE IF opened.raised THEN error(opened.error)
     ELSE IF fail = "save" THEN error(OSErrorText(file_path))
     ELSE Outcome([fs.store EXCEPT
                     ![file_path] = ReplaceFrames(audio_file, mime_type, image_data)],
                  fs.out, "None",
                  <<<<"[","R","E","P","L","A","C","E","]"," ","C","o","v","e","r"," ","a","r","t"," ","r","e","p","l","a","c","e","d"," ","i","n"," ","\"">> \o file_path \o <<"\"">>>>,
                  "none", "none", "ok")

main_get_audio_files_from_directory(directory_path, listing) ==
  AudioFilesIn(directory_path, listing, AUDIO_EXTENTIONS)

-----------------------------------------------------------------------------
(* The program: a selection of audio files, then one operation over it *)

Operations == {"COPY", "DELETE", "EXTRACT", "REPLACE"}

\* what a file dialog can return: the files of the disk, each at most once, in
\* any order; the empty selection when the dialog is cancelled
Selections(paths) == UNION {Orders(S) : S \in SUBSET paths}

NoRep == [img |-> <<>>, status |-> "none"]
NotListed == [done |-> FALSE, folder |-> <<>>, listing |-> <<>>]

Init ==
  /\ variant \in {"main", "mim"}
  /\ store \in Stores
  /\ out = {}
  /\ selection = <<>>
  /\ image = <<>>
  /\ op = "NONE"
  /\ idx = 0
  /\ results = <<>>
  /\ console = <<>>
  /\ pc = "idle"
  /\ runs = 1
  /\ outcomes = <<>>
  /\ before = [store |-> store, out |-> {}]
  /\ lastRep = [p \in DOMAIN store |-> NoRep]
  /\ listed = NotListed

\* the record of one file's step: what ran and how, how much was reported, and
\* the payload of the first picture the file held before the step
Record(file_path, r, said) ==
  [file |-> file_path, op |-> op, copy |-> r.copy, del |-> r.del, rep |-> r.rep,
   said |-> said,
   pic |-> IF store[file_path].pics = <<>> THEN "" ELSE store[file_path].pics[1].data]

\* the most recent Replace of each file, forgotten when Delete or Extract is
\* applied to the file
NoteReplace(file_path, r) ==
  IF op = "REPLACE" THEN [lastRep EXCEPT ![file_path] = [img |-> image, status |-> r.rep]]
  ELSE IF op \in {"DELETE", "EXTRACT"} THEN [lastRep EXCEPT ![file_path] = NoRep]
  ELSE lastRep

(* ---- src/mim.py: the GUI ---- *)

browse_files ==
  /\ variant = "mim" /\ pc = "idle"
  /\ \E files \in Selections(DOMAIN store) : selection' = files
  /\ pc' = "ready"
  /\ UNCHANGED <<variant, store, out, image, op, idx, results, console, runs,
                 outcomes, before, lastRep, listed>>

browse_folder ==
  /\ variant = "mim" /\ pc = "idle"
  /\ \E folder \in Dirs : \E listing \in Orders(listdir(store, folder)) :
       LET found == mim_get_audio_files_from_directory(folder, listing)
       IN /\ listed' = [done |-> TRUE, folder |-> folder, listing |-> listing]
          /\ IF found.raised
             THEN pc' = "crashed" /\ selection' = selection
             ELSE pc' = "ready" /\ selection' = found.value
  /\ UNCHANGED <<variant, store, out, image, op, idx, results, console, runs,
                 outcomes, before, lastRep>>

browse_image ==
  /\ variant = "mim" /\ pc = "ready" /\ image = <<>>
  /\ image' \in DOMAIN Images
  /\ UNCHANGED <<variant, store, out, selection, op, idx, results, console, pc, runs,
                 outcomes, before, lastRep, listed>>

mim_operation(fs, operation, file_path, image_path, fail) ==
  CASE operation = "COPY" -> mim_copy_cover_art(fs, file_path, fail)
    [] operation = "DELETE" -> mim_delete_cover_art(fs, file_path, fail)
    [] operation = "EXTRACT" -> mim_extract_cover_art(fs, file_path, fail)
    [] operation = "REPLACE" -> mim_replace_cover_art(fs, file_path, image_path, fail)

\* run_cover_op, entered: no selection is refused
run_cover_op ==
  /\ variant = "mim" /\ pc = "ready"
  /\ \E operation \in Operations :
       /\ op' = operation
       /\ IF selection = <<>>
          THEN pc' = "rejected" /\ idx' = idx
          ELSE pc' = "running" /\ idx' = 1
  /\ results' = <<>>
  /\ UNCHANGED <<variant, store, out, selection, image, console, runs,
                 outcomes, before, lastRep, listed>>

\* run_cover_op, one turn of its loop
run_cover_op_file ==
  /\ variant = "mim" /\ pc = "running" /\ idx <= Len(selection)
  /\ LET file_path == selection[idx]
     IN IF op = "REPLACE" /\ image = <<>>
        THEN /\ pc' = "rejected"
             /\ UNCHANGED <<store, out, idx, results, outcomes, before, lastRep, listed>>
        ELSE \E fail \in Fails(op) :
               LET r == mim_operation([store |-> store, out |-> out], op, file_path,
                                      image, fail)
               IN /\ store' = r.store
                  /\ out' = r.out
                  /\ before' = [store |-> store, out |-> out]
                  /\ lastRep' = NoteReplace(file_path, r)
                  /\ IF r.raised
                     THEN /\ pc' = "crashed"
                          /\ UNCHANGED <<idx, results>>
                          /\ outcomes' = Append(outcomes, Record(file_path, r, 0))
                     ELSE /\ pc' = pc
                          /\ idx' = idx + 1
                          /\ results' = Append(results, r.ret)
                          /\ outcomes' = Append(outcomes, Record(file_path, r, 1))
  /\ UNCHANGED <<variant, selection, image, op, console, runs, listed>>

\* run_cover_op, after its loop: messagebox.showinfo of the results
run_cover_op_done ==
  /\ variant = "mim" /\ pc = "running" /\ idx > Len(selection)
  /\ pc' = "done"
  /\ UNCHANGED <<variant, store, out, selection, image, op, idx, results, console, runs,
                 outcomes, before, lastRep, listed>>

(* ---- src/main.py: the script ---- *)

select_audio_files ==
  /\ variant = "main" /\ pc = "idle"
  /\ \E files \in Selections(DOMAIN store) : selection' = files
  /\ pc' = "ready"
  /\ UNCHANGED <<variant, store, out, image, op, idx, results, console, runs,
                 outcomes, before, lastRep, listed>>

select_audio_directory ==
  /\ variant = "main" /\ pc = "idle"
  /\ \E folder \in Dirs : \E listing \in Orders(listdir(store, folder)) :
       LET found == main_get_audio_files_from_directory(folder, listing)
       IN /\ listed' = [done |-> TRUE, folder |-> folder, listing |-> listing]
          /\ IF found.raised
             THEN pc' = "crashed" /\ selection' = selection
             ELSE pc' = "ready" /\ selection' = found.value
  /\ UNCHANGED <<variant, store, out, image, op, idx, results, console, runs,
                 outcomes, before, lastRep>>

main_operation(fs, operation, file_path, image_path, fail) ==
  CASE operation = "COPY" -> main_copy_cover_art(fs, file_path, FALSE, fail)
    [] operation = "DELETE" -> main_delete_cover_art(fs, file_path, fail)
    [] operation = "EXTRACT" -> main_extract_cover_art(fs, file_path, fail)
    [] operation = "REPLACE" -> main_replace_cover_art(fs, file_path, image_path, fail)

\* main, from the selection to the loops: no file, or no image for REPLACE, ends it
main ==
  /\ variant = "main" /\ pc = "ready"
  /\ \E operation \in Operations : \E image_path \in DOMAIN Images \cup {<<>>} :
       IF selection = <<>>
       THEN /\ pc' = "rejected"
            /\ op' = operation
            /\ console' = Append(console, <<"N","o"," ","M","P","3"," ","f","i","l","e","s"," ","s","e","l","e","c","t","e","d",".">>)
            /\ UNCHANGED <<idx, image>>
       ELSE IF operation = "REPLACE" /\ image_path = <<>>
       THEN /\ pc' = "rejected"
            /\ op' = operation
            /\ console' = Append(console, <<"N","o"," ","i","m","a","g","e"," ","s","e","l","e","c","t","e","d",".">>)
            /\ UNCHANGED <<idx, image>>
       ELSE /\ pc' = "running"
            /\ op' = operation
            /\ idx' = 1
            /\ image' = IF operation = "REPLACE" THEN image_path ELSE <<>>
            /\ console' = console
  /\ UNCHANGED <<variant, store, out, selection, results, runs, outcomes, before, lastRep, listed>>

\* main, one turn of the loop of the chosen operation
main_file ==
  /\ variant = "main" /\ pc = "running" /\ idx <= Len(selection)
  /\ LET file_path == selection[idx]
     IN \E fail \in Fails(op) :
          LET r == main_operation([store |-> store, out |-> out], op, file_path, image, fail)
          IN /\ store' = r.store
             /\ out' = r.out
             /\ before' = [store |-> store, out |-> out]
             /\ lastRep' = NoteReplace(file_path, r)
             /\ console' = console \o r.lines
             /\ outcomes' = Append(outcomes, Record(file_path, r, Len(r.lines)))
             /\ IF r.raised
                THEN pc' = "crashed" /\ idx' = idx
                ELSE pc' = pc /\ idx' = idx + 1
  /\ UNCHANGED <<variant, selection, image, op, results, runs, listed>>

\* main, after its loop: the script ends
main_done ==
  /\ variant = "main" /\ pc = "running" /\ idx > Len(selection)
  /\ pc' = "done"
  /\ UNCHANGED <<variant, store, out, selection, image, op, idx, results, console, runs,
                 outcomes, before, lastRep, listed>>

\* the next batch: another button of the GUI after a new selection, or the
\* script started again; the disk and the output directory stay
Again ==
  /\ pc \in {"done", "rejected", "crashed"} /\ runs < MaxRuns
  /\ runs' = runs + 1
  /\ pc' = "idle"
  /\ selection' = <<>> /\ image' = <<>> /\ op' = "NONE" /\ idx' = 0
  /\ results' = <<>> /\ console' = <<>> /\ outcomes' = <<>>
  /\ before' = [store |-> store, out |-> out]
  /\ listed' = NotListed
  /\ UNCHANGED <<variant, store, out, lastRep>>

Next ==
  \/ browse_files
  \/ browse_folder
  \/ browse_image
  \/ run_cover_op
  \/ run_cover_op_file
  \/ run_cover_op_done
  \/ select_audio_files
  \/ select_audio_directory
  \/ main
  \/ main_file
  \/ main_done
  \/ Again

Spec == Init /\ [][Next]_vars

-----------------------------------------------------------------------------
(* Properties.  A step has been taken in the current batch when outcomes is   *)
(* not empty; Last is its record, and before is the disk and the output       *)
(* directory as they were when the step began.                                *)

Stepped == outcomes # <<>>
Last == outcomes[Len(outcomes)]
FileBefore == before.store[Last.file]
FileNow == store[Last.file]
Ended == pc \in {"done", "rejected", "crashed"}

\* C1: in both variants Extract invokes Delete only when its Copy step
\* succeeded; after a skipped or failed Copy, Delete is not invoked and the
\* audio file is left as it was.
C1_DeleteOnlyAfterCopy ==
  \A i \in DOMAIN outcomes :
    (outcomes[i].op = "EXTRACT" /\ outcomes[i].copy # "ok")
      => /\ outcomes[i].del = "none"
         /\ (i = Len(outcomes) => store = before.store)

\* what Copy alone does to the output directory from the state before the step
CopyAloneOut ==
  IF variant = "mim"
  THEN mim_copy_cover_art(before, Last.file, "none").out
  ELSE main_copy_cover_art(before, Last.file, FALSE, "none").out

MimeAsWritten == (<<"/","i","/","c",".","P","N","G">> :> <<"i","m","a","g","e","/","P","N","G">>) @@ (<<"/","i","/","n",".","j","p","g">> :> <<"i","m","a","g","e","/","j","p","g">>)
MimeLowered == (<<"/","i","/","c",".","P","N","G">> :> <<"i","m","a","g","e","/","p","n","g">>) @@ (<<"/","i","/","n",".","j","p","g">> :> <<"i","m","a","g","e","/","j","p","g">>)

\* C3 as stated: after Replace(file, image) has returned, the file has exactly
\* one picture frame, with the bytes of the image and the MIME string
\* image/<extension of the image path>.
C3_ReplaceAlwaysOneFrame ==
  (Stepped /\ Last.op = "REPLACE")
    => /\ Len(FileNow.pics) = 1
       /\ FileNow.pics[1].data = Images[image]
       /\ FileNow.pics[1].mime = MimeAsWritten[image]

\* C3 amended: after a Replace(file, image) that reported success, the file has
\* a tag container with exactly one picture frame, whose payload is the bytes
\* of the image and whose MIME string is image/<lower-cased extension of the
\* image path>, whatever frames and container it had before; its other frames
\* are kept.
C3_ReplaceOneFrameOnSuccess ==
  (Stepped /\ Last.op = "REPLACE" /\ Last.rep = "ok")
    => /\ FileNow.hasTags
       /\ Len(FileNow.pics) = 1
       /\ FileNow.pics[1].data = Images[image]
       /\ FileNow.pics[1].mime = MimeLowered[image]
       /\ FileNow.other = FileBefore.other

C3_Witness ==
  /\ Stepped /\ Last.op = "REPLACE" /\ Last.rep = "ok"
  /\ Len(FileBefore.pics) = 2
  /\ image = <<"/","i","/","c",".","P","N","G">>
  /\ FileNow.pics = <<Pic(<<"i","m","a","g","e","/","p","n","g">>, "bytesP")>>

C3_WitnessNoTags ==
  /\ Stepped /\ Last.op = "REPLACE" /\ Last.rep = "ok"
  /\ ~FileBefore.hasTags /\ FileNow.hasTags

\* every file of the selection has been processed, in order, with something
\* reported for each
AllProcessed ==
  /\ Len(outcomes) = Len(selection)
  /\ \A i \in DOMAIN outcomes : outcomes[i].file = selection[i] /\ outcomes[i].said >= 1
  /\ variant = "mim" => Len(results) = Len(selection)

\* C4 as stated: a batch of any operation over a list of files always ends
\* having processed the whole list, with an outcome reported for each file.
C4_BatchAlwaysCompletes ==
  (Ended /\ selection # <<>>) => (pc = "done" /\ AllProcessed)

\* REPLACE asked for with no image selected
NoImage == op = "REPLACE" /\ image = <<>>

\* C4 amended: a batch of copy, delete, extract, or replace with an image
\* selected, never ends in a propagated failure: every failure on a file is
\* reported for that file, the files after it are still processed, and the
\* batch ends with the whole list processed and something reported for each
\* file.  (Replace with no image selected processes no file.)
C4_BatchCompletes ==
  /\ (Ended /\ selection # <<>> /\ ~NoImage) => (pc = "done" /\ AllProcessed)
  /\ (pc = "running") => (Len(outcomes) = idx - 1)
  /\ \A i \in DOMAIN outcomes : outcomes[i].said >= 1

C4_Witness ==
  /\ pc = "done" /\ Len(selection) = 2 /\ AllProcessed
  /\ outcomes[1].copy = "error" /\ outcomes[2].copy = "ok" /\ outcomes[2].del = "error"

C6_SongJpg ==
  (/\ Stepped /\ Last.op = "COPY"
   /\ basename(Last.file) = <<"s","o","n","g",".","m","p","3">>
   /\ FileBefore.pics # <<>>
   /\ FileBefore.pics[1].mime = <<"i","m","a","g","e","/","j","p","e","g">>)
    => [path |-> <<"c","o","v","e","r","_","a","r","t","/","s","o","n","g",".","j","p","g">>, data |-> FileBefore.pics[1].data] \in out

\* C6 amended: a successful Copy of song.mp3 whose first picture has the MIME
\* string image/jpeg produces cover_art/song.jpeg, named after the MIME
\* subtype, with the bytes of the picture, and no cover_art/song.jpg.
C6_SongJpeg ==
  (/\ Stepped /\ Last.op = "COPY" /\ Last.copy = "ok"
   /\ Last.file \in {<<"/","a","/","s","o","n","g",".","m","p","3">>, <<"/","b","/","s","o","n","g",".","m","p","3">>}
   /\ FileBefore.pics # <<>>
   /\ FileBefore.pics[1].mime = <<"i","m","a","g","e","/","j","p","e","g">>)
    => /\ [path |-> <<"c","o","v","e","r","_","a","r","t","/","s","o","n","g",".","j","p","e","g">>, data |-> FileBefore.pics[1].data] \in out
       /\ \A f \in out : f.path = <<"c","o","v","e","r","_","a","r","t","/","s","o","n","g",".","j","p","g">> => f \in before.out

C6_Witness ==
  /\ Stepped /\ Last.op = "COPY" /\ Last.copy = "ok"
  /\ Last.file = <<"/","a","/","s","o","n","g",".","m","p","3">>
  /\ FileBefore.pics = <<Pic(<<"i","m","a","g","e","/","j","p","e","g">>, "bytesA")>>
  /\ out = {[path |-> <<"c","o","v","e","r","_","a","r","t","/","s","o","n","g",".","j","p","e","g">>, data |-> "bytesA"]}

\* the name Copy gives the picture of each file after Replace with each image
StemOf ==
  (<<"/","a","/","s","o","n","g",".","m","p","3">> :> <<"s","o","n","g">>) @@ (<<"/","b","/","s","o","n","g",".","m","p","3">> :> <<"s","o","n","g">>)
    @@ (<<"/","b","/","[","C","O","P","Y","]",".","M","P","3">> :> <<"[","C","O","P","Y","]">>) @@ (<<"/","c","/","x",".","f","l","a","c">> :> <<"x">>)
SubtypeOf == (<<"/","i","/","c",".","P","N","G">> :> <<"p","n","g">>) @@ (<<"/","i","/","n",".","j","p","g">> :> <<"j","p","g">>)
CopyPathAfterReplace(file_path, image_path) ==
  <<"c","o","v","e","r","_","a","r","t","/">> \o StemOf[file_path] \o <<".">> \o SubtypeOf[image_path]

\* C7 as stated: Replace(file, image) followed by Copy(file), on an MP3 file,
\* yields an output file with the bytes of the image.
C7_ReplaceThenCopyAlways ==
  (/\ Stepped /\ Last.op = "COPY"
   /\ lastRep[Last.file].status # "none"
   /\ FileBefore.fmt = "mp3")
    => [path |-> CopyPathAfterReplace(Last.file, lastRep[Last.file].img),
        data |-> Images[lastRep[Last.file].img]] \in out

\* C7 amended: when Replace(file, image) reported success and the Copy(file)
\* that follows it reports success, the output file Copy wrote,
\* cover_art/<basename>.<lower-cased extension of the image>, has the bytes of
\* the image.
C7_ReplaceThenCopy ==
  (/\ Stepped /\ Last.op = "COPY" /\ Last.copy = "ok"
   /\ lastRep[Last.file].status = "ok")
    => [path |-> CopyPathAfterReplace(Last.file, lastRep[Last.file].img),
        data |-> Images[lastRep[Last.file].img]] \in out

C7_Witness ==
  /\ Stepped /\ Last.op = "COPY" /\ Last.copy = "ok"
  /\ lastRep[Last.file] = [img |-> <<"/","i","/","c",".","P","N","G">>, status |-> "ok"]
  /\ [path |-> <<"c","o","v","e","r","_","a","r","t","/","s","o","n","g",".","p","n","g">>, data |-> "bytesP"] \in out

\* C8: Copy never changes an audio file, whatever its outcome; when it
\* succeeds it writes the first picture to <output_dir>/<basename>.<MIME
\* subtype> and no other file of the output directory changes; when it skips
\* or fails, nothing changes.
C8_CopyFrame ==
  (Stepped /\ Last.op = "COPY")
    => /\ store = before.store
       /\ Last.del = "none" /\ Last.rep = "none"
       /\ Last.copy # "ok" => out = before.out
       /\ Last.copy = "ok" =>
            /\ FileBefore.pics # <<>>
            /\ LET written ==
                     [path |-> join(COVER_ART_DIR,
                                    splitext(basename(Last.file))[1] \o <<".">>
                                      \o SplitLast(FileBefore.pics[1].mime, "/")),
                      data |-> FileBefore.pics[1].data]
               IN /\ written \in out
                  /\ \A f \in (out \ {written}) : f \in before.out
                  /\ \A f \in before.out : f.path # written.path => f \in out
                  /\ Cardinality({f \in out : f.path = written.path}) = 1

C8_Witness ==
  /\ Stepped /\ Last.op = "COPY" /\ Last.copy = "ok"
  /\ Len(FileBefore.pics) = 2
  /\ store = before.store
  /\ out # before.out
  /\ before.out # {}

\* the six audio extensions
SixExtensions ==
  {<<".","m","p","3">>, <<".","f","l","a","c">>, <<".","o","g","g">>, <<".","m","4","a">>, <<".","m","p","4">>, <<".","w","a","v">>}

\* the entries of a listing, in its order, whose lower-cased name ends with
\* one of the six extensions, each joined with the directory path
ExpectedAudioFiles(directory_path, listing) ==
  LET wanted(entry) == \E e \in SixExtensions : EndsWithStr(lower(entry), e)
      kept == SelectSeq(listing, wanted)
  IN [k \in DOMAIN kept |-> directory_path \o <<"/">> \o kept[k]]

\* C9: in both variants get_audio_files_from_directory returns, without
\* failing, for every directory, empty or not, exactly the directory's
\* immediate entries whose lower-cased name ends with an audio extension, each
\* joined with the directory path.
C9_DirectoryListing ==
  listed.done =>
    /\ pc # "crashed"
    /\ pc = "ready" => selection = ExpectedAudioFiles(listed.folder, listed.listing)

\* C10: when a batch Extract over distinct files has ended, for every file of
\* the list whose first picture Extract copied and whose picture frames it then
\* removed, the bytes of that former first picture are in some file of the
\* output directory.
C10_NoPictureLost ==
  (pc = "done" /\ op = "EXTRACT")
    => \A i \in DOMAIN outcomes :
         (outcomes[i].copy = "ok" /\ outcomes[i].del = "ok")
           => \E f \in out : f.data = outcomes[i].pic

====
